---- MODULE Spec2Model ----
(***************************************************************************)
(* Sumway (src/src/App.tsx): the score combination and decomposition       *)
(* engine of the App component and the handlers that own its state.        *)
(*                                                                         *)
(* Numbers are modelled as integers.  A value of type T | null is the      *)
(* empty sequence (null) or a one-element sequence holding the value.      *)
(* Arrays are sequences; JavaScript index i is index i + 1 here.           *)
(***************************************************************************)
EXTENDS Integers, Sequences, FiniteSets, TLC

(***************************************************************************)
(* Bounds of the model.                                                    *)
(***************************************************************************)
\* pure-function specification: total number of values in a number[][] argument
MaxFnCells == 4
\* pure-function specification: the values are 1..MaxFnValue
MaxFnValue == 2
\* Math.random() is one of 0/RandomGrain .. (RandomGrain-1)/RandomGrain
RandomGrain == 4
\* application: items of the hierarchy, elements of an item, values of an element
MaxItems == 2
MaxElements == 2
MaxNumbers == 2
\* application: total number of values in the hierarchy
MaxCells == 4
\* application: updateNumber is given one of 0..MaxValue
MaxValue == 2
\* application: addStudent is enabled while nextStudentId <= MaxStudentId
MaxStudentId == 1
\* student roster: addStudent is enabled while nextStudentId <= MaxRosterId
MaxRosterId == 2
\* candidate sequences given to selectBalancedCombination on its own
MaxCandidates == 4
\* largest value in such a candidate
MaxComboValue == 2

Null == <<>>

Some(x) == <<x>>

(***************************************************************************)
(* Helpers for arrays of numbers.                                          *)
(***************************************************************************)
RECURSIVE SumSeq(_)
\* arr.reduce((a, b) => a + b, 0)
SumSeq(arr) == IF arr = <<>> THEN 0 ELSE arr[1] + SumSeq(Tail(arr))

Elems(arr) == {arr[i] : i \in DOMAIN arr}

RECURSIVE Flatten(_)
\* concatenation of a sequence of sequences, in order
Flatten(ss) == IF ss = <<>> THEN <<>> ELSE ss[1] \o Flatten(Tail(ss))

(***************************************************************************)
(* findItemCombinations: depth-first search with the prune                 *)
(* currentSum + score <= targetSum; combinations are pushed in the order   *)
(* the search meets them.                                                  *)
(***************************************************************************)
RECURSIVE backtrackItemStrict(_, _, _, _, _)
\* backtrackItem with the prune written currentSum + score < targetSum
backtrackItemStrict(targetSum, itemResults, index, currentSum, current) ==
    IF index = Len(itemResults) + 1
    THEN IF currentSum = targetSum THEN <<current>> ELSE <<>>
    ELSE Flatten([k \in DOMAIN itemResults[index] |->
            LET score == itemResults[index][k]
            IN  IF currentSum + score < targetSum
                THEN backtrackItemStrict(targetSum, itemResults, index + 1,
                                         currentSum + score, Append(current, score))
                ELSE <<>>])

RECURSIVE backtrackItem(_, _, _, _, _)
backtrackItem(targetSum, itemResults, index, currentSum, current) ==
    IF index = Len(itemResults) + 1
    THEN IF currentSum = targetSum THEN <<current>> ELSE <<>>
    ELSE Flatten([k \in DOMAIN itemResults[index] |->
            LET score == itemResults[index][k]
            IN  IF currentSum + score <= targetSum
                THEN backtrackItem(targetSum, itemResults, index + 1,
                                   currentSum + score, Append(current, score))
                ELSE <<>>])

\* findItemCombinations with an early return for no groups:
\* if (itemResults.length === 0) return []
findItemCombinationsNoGroupsNone(targetSum, itemResults) ==
    IF Len(itemResults) = 0 THEN <<>>
    ELSE backtrackItem(targetSum, itemResults, 1, 0, <<>>)

findItemCombinations(targetSum, itemResults) ==
    backtrackItem(targetSum, itemResults, 1, 0, <<>>)

(***************************************************************************)
(* findElementCombinations: the same search over the elements of one item. *)
(***************************************************************************)
RECURSIVE backtrackElement(_, _, _, _, _)
backtrackElement(targetSum, elements, index, currentSum, current) ==
    IF index = Len(elements) + 1
    THEN IF currentSum = targetSum THEN <<current>> ELSE <<>>
    ELSE Flatten([k \in DOMAIN elements[index] |->
            LET score == elements[index][k]
            IN  IF currentSum + score <= targetSum
                THEN backtrackElement(targetSum, elements, index + 1,
                                      currentSum + score, Append(current, score))
                ELSE <<>>])

findElementCombinations(targetSum, elements) ==
    backtrackElement(targetSum, elements, 1, 0, <<>>)

(***************************************************************************)
(* calculateStdDev.  The code computes sqrt(sum((x - mean)^2) / n) in      *)
(* floating point; the model keeps the exact variance as the fraction      *)
(* num / den with num = n * sum(x^2) - sum(x)^2 and den = n^2.  The only   *)
(* use of a standard deviation is the sign of a difference of two of       *)
(* them, which is the sign of the difference of the variances.  The        *)
(* floating-point value agrees with the exact one in that sign for the     *)
(* candidates within the bounds of this module; for longer candidates or   *)
(* larger values two candidates of equal exact deviation can differ in     *)
(* the last bit of the computed one ([9, 4, 1] and [9, 1, 4]), which the   *)
(* integers of the model do not represent.                                 *)
(***************************************************************************)
calculateStdDev(arr) ==
    IF Len(arr) = 0
    THEN [num |-> 0, den |-> 1]
    ELSE [num |-> Len(arr) * SumSeq([i \in DOMAIN arr |-> arr[i] * arr[i]])
                    - SumSeq(arr) * SumSeq(arr),
          den |-> Len(arr) * Len(arr)]

\* a.stdDev - b.stdDev > 0
StdDevGreater(a, b) == a.num * b.den > b.num * a.den

RECURSIVE InsertByStdDev(_, _)
\* e goes after every entry whose stdDev is not greater than its own
InsertByStdDev(sorted, e) ==
    IF sorted = <<>>
    THEN <<e>>
    ELSE IF StdDevGreater(sorted[1].stdDev, e.stdDev)
         THEN <<e>> \o sorted
         ELSE <<sorted[1]>> \o InsertByStdDev(Tail(sorted), e)

RECURSIVE SortByStdDev(_)
\* withStdDev.sort((a, b) => a.stdDev - b.stdDev): Array.prototype.sort is stable
SortByStdDev(withStdDev) ==
    IF withStdDev = <<>>
    THEN <<>>
    ELSE InsertByStdDev(SortByStdDev(SubSeq(withStdDev, 1, Len(withStdDev) - 1)),
                        withStdDev[Len(withStdDev)])

\* Math.max(1, Math.floor(n * 0.3)): the prefix size rounded down
TopCountFloor(n) == IF (3 * n) \div 10 > 1 THEN (3 * n) \div 10 ELSE 1

\* Math.max(1, Math.ceil(n * 0.3))
TopCount(n) == IF (3 * n + 9) \div 10 > 1 THEN (3 * n + 9) \div 10 ELSE 1

\* selectBalancedCombination with the two early returns merged into
\* if (combinations.length <= 1) return []
selectBalancedCombinationShortEmpty(combinations, random) ==
    IF Len(combinations) <= 1 THEN <<>>
    ELSE LET withStdDev == SortByStdDev([i \in DOMAIN combinations |->
                                [combo |-> combinations[i],
                                 stdDev |-> calculateStdDev(combinations[i])]])
             topCombinations == SubSeq(withStdDev, 1, TopCount(Len(withStdDev)))
         IN  topCombinations[(random * Len(topCombinations)) \div RandomGrain + 1].combo

\* selectBalancedCombination with the first early return giving [0] for no candidates
selectBalancedCombinationZeroForEmpty(combinations, random) ==
    IF Len(combinations) = 0 THEN <<0>>
    ELSE IF Len(combinations) = 1 THEN combinations[1]
    ELSE LET withStdDev == SortByStdDev([i \in DOMAIN combinations |->
                                [combo |-> combinations[i],
                                 stdDev |-> calculateStdDev(combinations[i])]])
             topCombinations == SubSeq(withStdDev, 1, TopCount(Len(withStdDev)))
         IN  topCombinations[(random * Len(topCombinations)) \div RandomGrain + 1].combo

(***************************************************************************)
(* selectBalancedCombination.  random stands for Math.random() =           *)
(* random / RandomGrain, so Math.floor(Math.random() * topCount) is        *)
(* (random * topCount) \div RandomGrain.                                   *)
(***************************************************************************)
selectBalancedCombination(combinations, random) ==
    IF Len(combinations) = 0 THEN <<>>
    ELSE IF Len(combinations) = 1 THEN combinations[1]
    ELSE LET withStdDev == SortByStdDev([i \in DOMAIN combinations |->
                                [combo |-> combinations[i],
                                 stdDev |-> calculateStdDev(combinations[i])]])
             topCount == TopCount(Len(withStdDev))
             topCombinations == SubSeq(withStdDev, 1, topCount)
             randomIndex == (random * Len(topCombinations)) \div RandomGrain
         IN  topCombinations[randomIndex + 1].combo

(***************************************************************************)
(* calculateCartesianSum: fold of pairwise sums, then [...new Set(sums)]   *)
(* (first occurrences, in order) sorted descending.                        *)
(***************************************************************************)
\* the nested for loops: sum outer, num inner
PairSums(sums, nums) ==
    Flatten([a \in DOMAIN sums |-> [b \in DOMAIN nums |-> sums[a] + nums[b]]])

RECURSIVE FoldSums(_, _, _)
FoldSums(sets, i, sums) ==
    IF i > Len(sets) THEN sums ELSE FoldSums(sets, i + 1, PairSums(sums, sets[i]))

\* sums kept as they are: no new Set
DedupNone(sums) == sums

RECURSIVE Dedup(_)
\* [...new Set(sums)]
Dedup(sums) ==
    IF sums = <<>>
    THEN <<>>
    ELSE LET init == Dedup(SubSeq(sums, 1, Len(sums) - 1))
             last == sums[Len(sums)]
         IN  IF last \in Elems(init) THEN init ELSE Append(init, last)

RECURSIVE InsertDesc(_, _)
InsertDesc(sorted, x) ==
    IF sorted = <<>>
    THEN <<x>>
    ELSE IF x - sorted[1] > 0
         THEN <<x>> \o sorted
         ELSE <<sorted[1]>> \o InsertDesc(Tail(sorted), x)

RECURSIVE SortDesc(_)
\* .sort((a, b) => b - a)
SortDesc(arr) ==
    IF arr = <<>>
    THEN <<>>
    ELSE InsertDesc(SortDesc(SubSeq(arr, 1, Len(arr) - 1)), arr[Len(arr)])

\* calculateCartesianSum with the loop started at i = 2: the second group is skipped
calculateCartesianSumFromTwo(sets) ==
    IF Len(sets) = 0 THEN <<>> ELSE SortDesc(Dedup(FoldSums(sets, 3, sets[1])))

\* calculateCartesianSum with the loop bound i < sets.length - 1: the last group is skipped
calculateCartesianSumButLast(sets) ==
    IF Len(sets) = 0
    THEN <<>>
    ELSE SortDesc(Dedup(FoldSums(SubSeq(sets, 1, Len(sets) - 1), 2, sets[1])))

calculateCartesianSum(sets) ==
    IF Len(sets) = 0 THEN <<>> ELSE SortDesc(Dedup(FoldSums(sets, 2, sets[1])))

(***************************************************************************)
(* State of the App component.                                             *)
(***************************************************************************)
VARIABLES
    items,          \* Item[]: items -> evaluation elements -> numbers
    results,        \* Results | null
    error,          \* null, or the 1-based position named by the message
    students,       \* Student[]
    nextStudentId,  \* number
    searches,       \* find*Combinations calls made by the last handler
    storageOps,     \* localStorage calls caused by the last handler
    fnPc,           \* pure-function specification: the function applied
    sets,           \* pure-function specification: the number[][] argument
    targetSum,      \* pure-function specification: the targetSum argument
    fnRandom,       \* pure-function specification: the value Math.random() gave
    fnOut           \* pure-function specification: the value returned

appVars == <<items, results, error, students, nextStudentId, searches, storageOps>>

fnVars == <<fnPc, sets, targetSum, fnRandom, fnOut>>

vars == <<items, results, error, students, nextStudentId, searches, storageOps,
          fnPc, sets, targetSum, fnRandom, fnOut>>

\* the values Math.random() takes in the model
Randoms == 0 .. (RandomGrain - 1)

\* the names typed into the name field
Names == {"A"}

\* the scores handed to updateStudentTotalScore: null or a number
Scores == {Null} \cup {Some(n) : n \in 0 .. (MaxValue * MaxCells + 1)}

\* number of values in the hierarchy
Cells(its) == SumSeq([i \in DOMAIN its |->
                  SumSeq([j \in DOMAIN its[i] |-> Len(its[i][j])])])

\* arr.filter((_, i) => i !== index)
RemoveAt(arr, index) ==
    [i \in 1 .. (Len(arr) - 1) |-> IF i < index THEN arr[i] ELSE arr[i + 1]]

\* loadItemsFromStorage with nothing saved
DefaultItems == <<<< <<0>> >>>>

\* the application starts with empty localStorage; the mount effect saves the students
AppInit ==
    /\ items = DefaultItems
    /\ results = Null
    /\ error = Null
    /\ students = <<>>
    /\ nextStudentId = 1
    /\ searches = 0
    /\ storageOps = <<"setItem sumway-students">>

\* the pure-function variables outside the pure-function specification
FnIdle ==
    /\ fnPc = "idle"
    /\ sets = <<>>
    /\ targetSum = 0
    /\ fnRandom = 0
    /\ fnOut = <<>>

Init == AppInit /\ FnIdle

(***************************************************************************)
(* Student handlers.  The useEffect on [students, nextStudentId] runs      *)
(* after every handler that calls setStudents or changes nextStudentId.    *)
(***************************************************************************)
\* addStudent without setNextStudentId(nextStudentId + 1)
addStudentKeepNextId ==
    /\ students' = Append(students,
                          [id |-> nextStudentId,
                           name |-> "student " \o ToString(nextStudentId),
                           totalScore |-> Null,
                           itemScores |-> <<>>,
                           elementScores |-> <<>>])
    /\ searches' = 0
    /\ storageOps' = <<"setItem sumway-students">>
    /\ UNCHANGED <<items, results, error, nextStudentId>>

addStudent ==
    /\ students' = Append(students,
                          [id |-> nextStudentId,
                           name |-> "student " \o ToString(nextStudentId),
                           totalScore |-> Null,
                           itemScores |-> <<>>,
                           elementScores |-> <<>>])
    /\ nextStudentId' = nextStudentId + 1
    /\ searches' = 0
    /\ storageOps' = <<"setItem sumway-students">>
    /\ UNCHANGED <<items, results, error>>

removeStudent(id) ==
    /\ students' = SelectSeq(students, LAMBDA s : s.id # id)
    /\ searches' = 0
    /\ storageOps' = <<"setItem sumway-students">>
    /\ UNCHANGED <<items, results, error, nextStudentId>>

updateStudentName(id, name) ==
    /\ students' = [n \in DOMAIN students |->
                       IF students[n].id = id
                       THEN [students[n] EXCEPT !.name = name]
                       ELSE students[n]]
    /\ searches' = 0
    /\ storageOps' = <<"setItem sumway-students">>
    /\ UNCHANGED <<items, results, error, nextStudentId>>

\* the selections selectBalancedCombination can return over all random values
Selections(combinations) ==
    {selectBalancedCombination(combinations, r) : r \in Randoms}

\* elementCombinations searching for the total instead of the item's score
elementCombinationsOfTotal(selectedItemScores, i) ==
    findElementCombinations(SumSeq(selectedItemScores), items[i])

\* lines 192-195: the element search of item i; an index past the end of
\* selectedItemScores reads undefined, which no sum equals
elementCombinations(selectedItemScores, i) ==
    IF i \in DOMAIN selectedItemScores
    THEN findElementCombinations(selectedItemScores[i], items[i])
    ELSE <<>>

\* clearStudentScores that forgets elementScores
clearStudentScoresKeepElements(id) ==
    /\ students' = [n \in DOMAIN students |->
                       IF students[n].id = id
                       THEN [students[n] EXCEPT !.totalScore = Null,
                                                !.itemScores = <<>>]
                       ELSE students[n]]
    /\ searches' = 0
    /\ storageOps' = <<"setItem sumway-students">>
    /\ UNCHANGED <<items, results, error, nextStudentId>>

\* lines 172-179 without the test s.id === id: every student is cleared
clearStudentScoresOfAll(id) ==
    /\ students' = [n \in DOMAIN students |->
                       [students[n] EXCEPT !.totalScore = Null,
                                           !.itemScores = <<>>,
                                           !.elementScores = <<>>]]
    /\ searches' = 0
    /\ storageOps' = <<"setItem sumway-students">>
    /\ UNCHANGED <<items, results, error, nextStudentId>>

\* lines 172-179: the targeted student loses its score and both assignments
clearStudentScores(id) ==
    /\ students' = [n \in DOMAIN students |->
                       IF students[n].id = id
                       THEN [students[n] EXCEPT !.totalScore = Null,
                                                !.itemScores = <<>>,
                                                !.elementScores = <<>>]
                       ELSE students[n]]
    /\ searches' = 0
    /\ storageOps' = <<"setItem sumway-students">>
    /\ UNCHANGED <<items, results, error, nextStudentId>>

\* lines 186-211: one selected item combination, then per item one selected
\* element combination, written to the targeted student
assignStudentScores(id, score, itemCombinations) ==
    \E selectedItemScores \in Selections(itemCombinations) :
    \E elementScores \in
          [DOMAIN items -> UNION {Selections(elementCombinations(selectedItemScores, i)) :
                                      i \in DOMAIN items}] :
       /\ \A i \in DOMAIN items :
              elementScores[i] \in Selections(elementCombinations(selectedItemScores, i))
       /\ students' = [n \in DOMAIN students |->
                          IF students[n].id = id
                          THEN [students[n] EXCEPT !.totalScore = score,
                                                   !.itemScores = selectedItemScores,
                                                   !.elementScores = elementScores]
                          ELSE students[n]]
       /\ searches' = 1 + Len(items)
       /\ storageOps' = <<"setItem sumway-students">>
       /\ UNCHANGED <<items, results, error, nextStudentId>>

\* updateStudentTotalScore that treats a score without combination like null
updateStudentTotalScoreClearing(id, score) ==
    IF score = Null \/ results = Null
    THEN clearStudentScores(id)
    ELSE IF Len(findItemCombinations(score[1], results[1].itemResults)) = 0
         THEN clearStudentScores(id)
         ELSE assignStudentScores(id, score,
                  findItemCombinations(score[1], results[1].itemResults))

updateStudentTotalScore(id, score) ==
    IF score = Null \/ results = Null
    THEN clearStudentScores(id)
    ELSE IF Len(findItemCombinations(score[1], results[1].itemResults)) = 0
         THEN /\ searches' = 1
              /\ storageOps' = <<>>
              /\ UNCHANGED <<items, results, error, students, nextStudentId>>
         ELSE assignStudentScores(id, score,
                  findItemCombinations(score[1], results[1].itemResults))

\* clearResults that forgets setResults(null)
clearResultsErrorOnly ==
    /\ results' = results
    /\ error' = Null

clearResults ==
    /\ results' = Null
    /\ error' = Null

resetAll ==
    /\ items' = DefaultItems
    /\ results' = Null
    /\ error' = Null
    /\ students' = <<>>
    /\ nextStudentId' = 1
    /\ searches' = 0
    /\ storageOps' = <<"removeItem sumway-items", "removeItem sumway-students",
                       "setItem sumway-students">>

(***************************************************************************)
(* Hierarchy handlers.  None of them calls setStudents.                    *)
(***************************************************************************)
addItem ==
    /\ Len(items) < MaxItems
    /\ Cells(items) < MaxCells
    /\ items' = Append(items, << <<0>> >>)
    /\ clearResults
    /\ searches' = 0
    /\ storageOps' = <<>>
    /\ UNCHANGED <<students, nextStudentId>>

\* removeItem with the guard items.length < 1: the only item can be removed
removeItemLastToo(itemIndex) ==
    /\ IF Len(items) < 1
       THEN UNCHANGED <<items, results, error>>
       ELSE /\ items' = RemoveAt(items, itemIndex)
            /\ clearResults
    /\ searches' = 0
    /\ storageOps' = <<>>
    /\ UNCHANGED <<students, nextStudentId>>

removeItem(itemIndex) ==
    /\ IF Len(items) <= 1
       THEN UNCHANGED <<items, results, error>>
       ELSE /\ items' = RemoveAt(items, itemIndex)
            /\ clearResults
    /\ searches' = 0
    /\ storageOps' = <<>>
    /\ UNCHANGED <<students, nextStudentId>>

addEvaluationElement(itemIndex) ==
    /\ Len(items[itemIndex]) < MaxElements
    /\ Cells(items) < MaxCells
    /\ items' = [items EXCEPT ![itemIndex] = Append(@, <<0>>)]
    /\ clearResults
    /\ searches' = 0
    /\ storageOps' = <<>>
    /\ UNCHANGED <<students, nextStudentId>>

removeEvaluationElement(itemIndex, elementIndex) ==
    /\ IF Len(items[itemIndex]) <= 1
       THEN UNCHANGED <<items, results, error>>
       ELSE /\ items' = [items EXCEPT ![itemIndex] = RemoveAt(@, elementIndex)]
            /\ clearResults
    /\ searches' = 0
    /\ storageOps' = <<>>
    /\ UNCHANGED <<students, nextStudentId>>

\* lines 311-320: 0, or the next term of the arithmetic progression
NewValue(currentNumbers) ==
    IF Len(currentNumbers) >= 2
    THEN LET last == currentNumbers[Len(currentNumbers)]
             secondLast == currentNumbers[Len(currentNumbers) - 1]
         IN  IF last > 0 /\ secondLast > 0 THEN last + (last - secondLast) ELSE 0
    ELSE 0

addNumber(itemIndex, elementIndex) ==
    /\ Len(items[itemIndex][elementIndex]) < MaxNumbers
    /\ Cells(items) < MaxCells
    /\ items' = [items EXCEPT ![itemIndex][elementIndex] = Append(@, NewValue(@))]
    /\ clearResults
    /\ searches' = 0
    /\ storageOps' = <<>>
    /\ UNCHANGED <<students, nextStudentId>>

removeNumber(itemIndex, elementIndex, numIndex) ==
    /\ IF Len(items[itemIndex][elementIndex]) <= 1
       THEN UNCHANGED <<items, results, error>>
       ELSE /\ items' = [items EXCEPT ![itemIndex][elementIndex] = RemoveAt(@, numIndex)]
            /\ clearResults
    /\ searches' = 0
    /\ storageOps' = <<>>
    /\ UNCHANGED <<students, nextStudentId>>

\* updateNumber that also clears every student's assigned scores
updateNumberClearingScores(itemIndex, elementIndex, numIndex, value) ==
    /\ items' = [items EXCEPT ![itemIndex][elementIndex][numIndex] = value]
    /\ clearResults
    /\ students' = [n \in DOMAIN students |->
                       [students[n] EXCEPT !.itemScores = <<>>, !.elementScores = <<>>]]
    /\ searches' = 0
    /\ storageOps' = <<"setItem sumway-students">>
    /\ UNCHANGED nextStudentId

\* value is the number the field holds; '' and '0' both give 0
updateNumber(itemIndex, elementIndex, numIndex, value) ==
    /\ items' = [items EXCEPT ![itemIndex][elementIndex][numIndex] = value]
    /\ clearResults
    /\ searches' = 0
    /\ storageOps' = <<>>
    /\ UNCHANGED <<students, nextStudentId>>

(***************************************************************************)
(* validate: the three nested loops, stopping at the first num <= 0.       *)
(* The result is null when validate returns true, else the position        *)
(* (i + 1, j + 1, k + 1) its message names.                                *)
(***************************************************************************)
RECURSIVE validateFromNegative(_, _, _)
\* validate with the test num < 0: a zero passes
validateFromNegative(i, j, k) ==
    IF i > Len(items) THEN Null
    ELSE IF j > Len(items[i]) THEN validateFromNegative(i + 1, 1, 1)
    ELSE IF k > Len(items[i][j]) THEN validateFromNegative(i, j + 1, 1)
    ELSE IF items[i][j][k] < 0 THEN Some(<<i, j, k>>)
    ELSE validateFromNegative(i, j, k + 1)

RECURSIVE validateFrom(_, _, _)
validateFrom(i, j, k) ==
    IF i > Len(items) THEN Null
    ELSE IF j > Len(items[i]) THEN validateFrom(i + 1, 1, 1)
    ELSE IF k > Len(items[i][j]) THEN validateFrom(i, j + 1, 1)
    ELSE IF items[i][j][k] <= 0 THEN Some(<<i, j, k>>)
    ELSE validateFrom(i, j, k + 1)

validate == validateFrom(1, 1, 1)

\* calculateCombinations computing totalResult from each item's first element
calculateCombinationsFirstElements ==
    IF validate # Null
    THEN /\ error' = validate
         /\ searches' = 0
         /\ storageOps' = <<>>
         /\ UNCHANGED <<items, results, students, nextStudentId>>
    ELSE LET itemResults == [i \in DOMAIN items |-> calculateCartesianSum(items[i])]
             totalResult == calculateCartesianSum([i \in DOMAIN items |-> items[i][1]])
         IN  /\ students' = <<>>
             /\ nextStudentId' = 1
             /\ results' = Some([itemResults |-> itemResults, totalResult |-> totalResult])
             /\ error' = Null
             /\ searches' = 0
             /\ storageOps' = <<"setItem sumway-items", "setItem sumway-students">>
             /\ UNCHANGED items

\* calculateCombinations that empties the students before it validates
calculateCombinationsResetFirst ==
    IF validate # Null
    THEN /\ error' = validate
         /\ students' = <<>>
         /\ nextStudentId' = 1
         /\ searches' = 0
         /\ storageOps' = <<"setItem sumway-students">>
         /\ UNCHANGED <<items, results>>
    ELSE LET itemResults == [i \in DOMAIN items |-> calculateCartesianSum(items[i])]
             totalResult == calculateCartesianSum(itemResults)
         IN  /\ students' = <<>>
             /\ nextStudentId' = 1
             /\ results' = Some([itemResults |-> itemResults, totalResult |-> totalResult])
             /\ error' = Null
             /\ searches' = 0
             /\ storageOps' = <<"setItem sumway-items", "setItem sumway-students">>
             /\ UNCHANGED items

\* calculateCombinations without setStudents([]) and setNextStudentId(1)
calculateCombinationsKeepStudents ==
    IF validate # Null
    THEN /\ error' = validate
         /\ searches' = 0
         /\ storageOps' = <<>>
         /\ UNCHANGED <<items, results, students, nextStudentId>>
    ELSE LET itemResults == [i \in DOMAIN items |-> calculateCartesianSum(items[i])]
             totalResult == calculateCartesianSum(itemResults)
         IN  /\ results' = Some([itemResults |-> itemResults, totalResult |-> totalResult])
             /\ error' = Null
             /\ searches' = 0
             /\ storageOps' = <<"setItem sumway-items">>
             /\ UNCHANGED <<items, students, nextStudentId>>

\* calculateCombinations that keeps the student records and only clears their scores
calculateCombinationsClearScoresOnly ==
    IF validate # Null
    THEN /\ error' = validate
         /\ searches' = 0
         /\ storageOps' = <<>>
         /\ UNCHANGED <<items, results, students, nextStudentId>>
    ELSE LET itemResults == [i \in DOMAIN items |-> calculateCartesianSum(items[i])]
             totalResult == calculateCartesianSum(itemResults)
         IN  /\ students' = [n \in DOMAIN students |->
                                [students[n] EXCEPT !.totalScore = Null,
                                                    !.itemScores = <<>>,
                                                    !.elementScores = <<>>]]
             /\ results' = Some([itemResults |-> itemResults, totalResult |-> totalResult])
             /\ error' = Null
             /\ searches' = 0
             /\ storageOps' = <<"setItem sumway-items", "setItem sumway-students">>
             /\ UNCHANGED <<items, nextStudentId>>

calculateCombinations ==
    IF validate # Null
    THEN /\ error' = validate
         /\ searches' = 0
         /\ storageOps' = <<>>
         /\ UNCHANGED <<items, results, students, nextStudentId>>
    ELSE LET itemResults == [i \in DOMAIN items |-> calculateCartesianSum(items[i])]
             totalResult == calculateCartesianSum(itemResults)
         IN  /\ students' = <<>>
             /\ nextStudentId' = 1
             /\ results' = Some([itemResults |-> itemResults, totalResult |-> totalResult])
             /\ error' = Null
             /\ searches' = 0
             /\ storageOps' = <<"setItem sumway-items", "setItem sumway-students">>
             /\ UNCHANGED items

Next ==
    \/ nextStudentId <= MaxStudentId /\ addStudent /\ UNCHANGED fnVars
    \/ \E id \in 1 .. MaxStudentId : removeStudent(id) /\ UNCHANGED fnVars
    \/ \E id \in 1 .. MaxStudentId, name \in Names :
          updateStudentName(id, name) /\ UNCHANGED fnVars
    \/ \E id \in 1 .. MaxStudentId, score \in Scores :
          updateStudentTotalScore(id, score) /\ UNCHANGED fnVars
    \/ resetAll /\ UNCHANGED fnVars
    \/ addItem /\ UNCHANGED fnVars
    \/ \E itemIndex \in DOMAIN items : removeItem(itemIndex) /\ UNCHANGED fnVars
    \/ \E itemIndex \in DOMAIN items : addEvaluationElement(itemIndex) /\ UNCHANGED fnVars
    \/ \E itemIndex \in DOMAIN items, elementIndex \in 1 .. MaxElements :
          /\ elementIndex \in DOMAIN items[itemIndex]
          /\ removeEvaluationElement(itemIndex, elementIndex)
          /\ UNCHANGED fnVars
    \/ \E itemIndex \in DOMAIN items, elementIndex \in 1 .. MaxElements :
          /\ elementIndex \in DOMAIN items[itemIndex]
          /\ addNumber(itemIndex, elementIndex)
          /\ UNCHANGED fnVars
    \/ \E itemIndex \in DOMAIN items, elementIndex \in 1 .. MaxElements,
          numIndex \in 1 .. MaxNumbers :
          /\ elementIndex \in DOMAIN items[itemIndex]
          /\ numIndex \in DOMAIN items[itemIndex][elementIndex]
          /\ removeNumber(itemIndex, elementIndex, numIndex)
          /\ UNCHANGED fnVars
    \/ \E itemIndex \in DOMAIN items, elementIndex \in 1 .. MaxElements,
          numIndex \in 1 .. MaxNumbers, value \in 0 .. MaxValue :
          /\ elementIndex \in DOMAIN items[itemIndex]
          /\ numIndex \in DOMAIN items[itemIndex][elementIndex]
          /\ updateNumber(itemIndex, elementIndex, numIndex, value)
          /\ UNCHANGED fnVars
    \/ calculateCombinations /\ UNCHANGED fnVars

Spec == Init /\ [][Next]_vars

(***************************************************************************)
(* The student roster: the same handlers with up to MaxRosterId students   *)
(* over the hierarchy of one item, one element and one value, which        *)
(* updateNumber edits.                                                     *)
(***************************************************************************)
RosterNext ==
    \/ nextStudentId <= MaxRosterId /\ addStudent /\ UNCHANGED fnVars
    \/ \E id \in 1 .. MaxRosterId : removeStudent(id) /\ UNCHANGED fnVars
    \/ \E id \in 1 .. MaxRosterId, name \in Names :
          updateStudentName(id, name) /\ UNCHANGED fnVars
    \/ \E id \in 1 .. MaxRosterId, score \in Scores :
          updateStudentTotalScore(id, score) /\ UNCHANGED fnVars
    \/ resetAll /\ UNCHANGED fnVars
    \/ \E value \in 0 .. MaxValue : updateNumber(1, 1, 1, value) /\ UNCHANGED fnVars
    \/ calculateCombinations /\ UNCHANGED fnVars

SpecRoster == Init /\ [][RosterNext]_vars

(***************************************************************************)
(* The pure functions on their own: the argument is any sequence of        *)
(* non-empty sequences of positive numbers within the bounds, and one      *)
(* step applies one function to it.                                        *)
(***************************************************************************)
\* non-empty number[] of at most n values
FnGroups(n) == UNION {[1 .. len -> 1 .. MaxFnValue] : len \in 1 .. n}

RECURSIVE FnInputs(_)
\* number[][] of at most n values in total
FnInputs(n) ==
    {<<>>} \cup UNION {{<<g>> \o rest : rest \in FnInputs(n - Len(g))} : g \in FnGroups(n)}

FnTargets == 0 .. (MaxFnCells * MaxFnValue)

FnInit ==
    /\ AppInit
    /\ fnPc = "input"
    /\ sets \in FnInputs(MaxFnCells)
    /\ targetSum = 0
    /\ fnRandom = 0
    /\ fnOut = <<>>

CallCalculateCartesianSum ==
    /\ fnPc = "input"
    /\ fnPc' = "calculateCartesianSum"
    /\ fnOut' = calculateCartesianSum(sets)
    /\ UNCHANGED <<sets, targetSum, fnRandom>>

CallFindItemCombinations(target) ==
    /\ fnPc = "input"
    /\ fnPc' = "findItemCombinations"
    /\ targetSum' = target
    /\ fnOut' = findItemCombinations(target, sets)
    /\ UNCHANGED <<sets, fnRandom>>

CallFindElementCombinations(target) ==
    /\ fnPc = "input"
    /\ fnPc' = "findElementCombinations"
    /\ targetSum' = target
    /\ fnOut' = findElementCombinations(target, sets)
    /\ UNCHANGED <<sets, fnRandom>>

CallSelectBalancedCombination(random) ==
    /\ fnPc = "input"
    /\ fnPc' = "selectBalancedCombination"
    /\ fnRandom' = random
    /\ fnOut' = selectBalancedCombination(sets, random)
    /\ UNCHANGED <<sets, targetSum>>

FnNext ==
    \/ CallCalculateCartesianSum /\ UNCHANGED appVars
    \/ \E target \in FnTargets : CallFindItemCombinations(target) /\ UNCHANGED appVars
    \/ \E target \in FnTargets : CallFindElementCombinations(target) /\ UNCHANGED appVars
    \/ \E random \in Randoms : CallSelectBalancedCombination(random) /\ UNCHANGED appVars

SpecFn == FnInit /\ [][FnNext]_vars

(***************************************************************************)
(* selectBalancedCombination on its own: the argument is any sequence of   *)
(* at most MaxCandidates combinations of two values, as the search for     *)
(* two groups returns them, and one step applies the function to it.       *)
(***************************************************************************)
\* number[]: a combination for two groups
SelCombos == (1 .. MaxComboValue) \X (1 .. MaxComboValue)

\* number[][]: the candidate sequences
SelInputs == UNION {[1 .. n -> SelCombos] : n \in 0 .. MaxCandidates}

SelInit ==
    /\ AppInit
    /\ fnPc = "input"
    /\ sets \in SelInputs
    /\ targetSum = 0
    /\ fnRandom = 0
    /\ fnOut = <<>>

SelNext ==
    \E random \in Randoms : CallSelectBalancedCombination(random) /\ UNCHANGED appVars

SpecSel == SelInit /\ [][SelNext]_vars

(***************************************************************************)
(* validate and calculateCombinations on any hierarchy: the hierarchy is   *)
(* any one the editing handlers can build within the bounds, its values    *)
(* negative, zero or positive, and the step is calculateCombinations.      *)
(***************************************************************************)
\* what a number field can hold: a negative number, 0, or 1..MaxValue
ValNumbers == {0 - MaxValue, 0} \cup (1 .. MaxValue)

\* EvaluationElement: at most n values
ValElements(n) ==
    UNION {[1 .. len -> ValNumbers] :
              len \in 1 .. (IF n < MaxNumbers THEN n ELSE MaxNumbers)}

RECURSIVE ValItems(_, _)
\* Item: at most m elements and n values in total
ValItems(m, n) ==
    IF m < 1 \/ n < 1 THEN {}
    ELSE {<<e>> : e \in ValElements(n)}
         \cup UNION {{<<e>> \o rest : rest \in ValItems(m - 1, n - Len(e))} :
                        e \in ValElements(n - 1)}

RECURSIVE ValHierarchies(_, _)
\* Item[]: at most m items and n values in total
ValHierarchies(m, n) ==
    IF m < 1 \/ n < 1 THEN {}
    ELSE {<<it>> : it \in ValItems(MaxElements, n)}
         \cup UNION {{<<it>> \o rest : rest \in ValHierarchies(m - 1, n - Cells(<<it>>))} :
                        it \in ValItems(MaxElements, n - 1)}

ValInit ==
    /\ items \in ValHierarchies(MaxItems, MaxCells)
    /\ results = Null
    /\ error = Null
    /\ students = <<>>
    /\ nextStudentId = 1
    /\ searches = 0
    /\ storageOps = <<>>
    /\ FnIdle

ValNext == calculateCombinations /\ UNCHANGED fnVars

SpecVal == ValInit /\ [][ValNext]_vars

(***************************************************************************)
(* Reference definitions for the properties: what a choice of one value    *)
(* per group is, independently of the loops above.                         *)
(***************************************************************************)
\* every way of choosing one value from each group
Choices(groups) ==
    {c \in [DOMAIN groups -> UNION {Elems(groups[i]) : i \in DOMAIN groups}] :
        \A i \in DOMAIN groups : c[i] \in Elems(groups[i])}

\* the sums of those choices
ChoiceSums(groups) == {SumSeq(c) : c \in Choices(groups)}

\* the choices that sum to target
ExactChoices(target, groups) == {c \in Choices(groups) : SumSeq(c) = target}

(***************************************************************************)
(* C1 (SpecFn): for a non-empty sequence of non-empty groups of positive   *)
(* numbers, the values calculateCartesianSum returns are exactly the sums  *)
(* of one value chosen from each group: every returned value is such a sum *)
(* and every such sum is returned.                                         *)
(***************************************************************************)
C1_CartesianSumSoundComplete ==
    (fnPc = "calculateCartesianSum" /\ Len(sets) >= 1)
        => Elems(fnOut) = ChoiceSums(sets)

\* two groups of two values whose four sums collapse to three
C1_Witness ==
    /\ fnPc = "calculateCartesianSum"
    /\ Len(sets) = 2
    /\ Len(sets[1]) = 2
    /\ Len(sets[2]) = 2
    /\ Cardinality(ChoiceSums(sets)) = 3
    /\ Len(fnOut) = 3

(***************************************************************************)
(* C2 (SpecFn): for every target and every sequence of N groups of         *)
(* positive numbers, findItemCombinations and findElementCombinations      *)
(* return exactly the combinations of length N whose k-th value is taken   *)
(* from the k-th group and whose values sum to the target: the prune       *)
(* discards no such combination and nothing else is returned.              *)
(***************************************************************************)
C2_SearchExact ==
    (fnPc \in {"findItemCombinations", "findElementCombinations"})
        => Elems(fnOut) = ExactChoices(targetSum, sets)

\* a search that returned two combinations and pruned a branch on the way
C2_Witness ==
    /\ fnPc = "findItemCombinations"
    /\ Len(sets) >= 2
    /\ Cardinality(Elems(fnOut)) >= 2
    /\ \E c \in Choices(sets) : SumSeq(c) > targetSum

(***************************************************************************)
(* C10 (SpecFn): for every non-empty candidate sequence and every value of *)
(* the random source, selectBalancedCombination returns one of its         *)
(* candidates, unchanged; with exactly one candidate it returns that one.  *)
(***************************************************************************)
C10_SelectReturnsCandidate ==
    (fnPc = "selectBalancedCombination" /\ Len(sets) >= 1)
        => /\ fnOut \in Elems(sets)
           /\ Len(sets) = 1 => fnOut = sets[1]

\* several candidates of different spread, and the one returned is not the first
C10_Witness ==
    /\ fnPc = "selectBalancedCombination"
    /\ Len(sets) >= 2
    /\ fnOut # sets[1]
    /\ fnOut \in Elems(sets)
    /\ \E i, j \in DOMAIN sets :
          StdDevGreater(calculateStdDev(sets[i]), calculateStdDev(sets[j]))

(***************************************************************************)
(* C3 (Spec): round trip.  Whenever Results is present, every s in         *)
(* totalResult has at least one item-level combination, and every          *)
(* combination findItemCombinations(s, itemResults) returns sums to s.     *)
(***************************************************************************)
C3_TotalsRoundTrip ==
    results # Null =>
        \A s \in Elems(results[1].totalResult) :
            LET found == findItemCombinations(s, results[1].itemResults)
            IN  /\ Len(found) >= 1
                /\ \A n \in DOMAIN found : SumSeq(found[n]) = s

\* two items, and a total that decomposes in two ways
C3_Witness ==
    /\ results # Null
    /\ Len(items) = 2
    /\ \E s \in Elems(results[1].totalResult) :
          Len(findItemCombinations(s, results[1].itemResults)) >= 2

(***************************************************************************)
(* C4 (Spec): whenever Results is present and the item-level search for a  *)
(* score is non-empty, then for every selection the balance selector can   *)
(* make and every item i, the element-level search for the selected item   *)
(* score over items[i] is non-empty: updateStudentTotalScore never hands   *)
(* selectBalancedCombination zero candidates.                              *)
(***************************************************************************)
C4_ElementSearchNonEmpty ==
    results # Null =>
        \A score \in Scores \ {Null} :
            LET itemCombinations == findItemCombinations(score[1], results[1].itemResults)
            IN  Len(itemCombinations) # 0 =>
                    \A selectedItemScores \in Selections(itemCombinations) :
                    \A i \in DOMAIN items :
                        Len(elementCombinations(selectedItemScores, i)) # 0

\* updateStudentTotalScore has just assigned scores over two items, one of two elements
C4_Witness ==
    /\ results # Null
    /\ searches = 1 + Len(items)
    /\ Len(items) = 2
    /\ \E i \in DOMAIN items : Len(items[i]) = 2
    /\ \E n \in DOMAIN students :
          /\ students[n].totalScore # Null
          /\ Len(students[n].elementScores) = 2
          /\ \A i \in DOMAIN items : Len(students[n].elementScores[i]) = Len(items[i])

(***************************************************************************)
(* C5 (Spec): StudentRecord invariant.  For every student, if totalScore   *)
(* is set then itemScores sums to it and each elementScores[i] sums to     *)
(* itemScores[i]; if totalScore is unset then itemScores and               *)
(* elementScores are both empty.                                           *)
(***************************************************************************)
C5_StudentRecordInvariant ==
    \A n \in DOMAIN students :
        IF students[n].totalScore # Null
        THEN /\ SumSeq(students[n].itemScores) = students[n].totalScore[1]
             /\ DOMAIN students[n].elementScores = DOMAIN students[n].itemScores
             /\ \A i \in DOMAIN students[n].itemScores :
                    SumSeq(students[n].elementScores[i]) = students[n].itemScores[i]
        ELSE /\ students[n].itemScores = <<>>
             /\ students[n].elementScores = <<>>

\* a renamed student holding a two-item assignment with a two-element item
C5_Witness ==
    \E n \in DOMAIN students :
        /\ students[n].totalScore # Null
        /\ students[n].name = "A"
        /\ Len(students[n].itemScores) = 2
        /\ \E i \in DOMAIN students[n].elementScores :
              Len(students[n].elementScores[i]) = 2

(***************************************************************************)
(* C6 (Spec): Results are never stale.  Whenever Results is present, every *)
(* value of the hierarchy is positive, itemResults[i] is                   *)
(* calculateCartesianSum(items[i]) for every item of the current           *)
(* hierarchy, and totalResult is calculateCartesianSum(itemResults).       *)
(***************************************************************************)
C6_ResultsNeverStale ==
    results # Null =>
        /\ \A i \in DOMAIN items : \A j \in DOMAIN items[i] :
           \A k \in DOMAIN items[i][j] : items[i][j][k] > 0
        /\ DOMAIN results[1].itemResults = DOMAIN items
        /\ \A i \in DOMAIN items :
              results[1].itemResults[i] = calculateCartesianSum(items[i])
        /\ results[1].totalResult = calculateCartesianSum(results[1].itemResults)

\* Results present for an edited hierarchy of two items while a student exists
C6_Witness ==
    /\ results # Null
    /\ Len(items) = 2
    /\ Cells(items) = MaxCells
    /\ Len(results[1].totalResult) >= 3
    /\ Len(students) >= 1

(***************************************************************************)
(* C7 (Spec), as claimed: after a structural edit of the hierarchy every   *)
(* student's itemScores and elementScores are empty.                       *)
(***************************************************************************)
C7_EditClearsScores ==
    [][items' # items =>
          \A n \in DOMAIN students' :
              /\ students'[n].itemScores = <<>>
              /\ students'[n].elementScores = <<>>]_vars

\* a step of one of the hierarchy handlers that changes the hierarchy
HierarchyEdit ==
    /\ items' # items
    /\ \/ addItem
       \/ \E itemIndex \in DOMAIN items : removeItem(itemIndex)
       \/ \E itemIndex \in DOMAIN items : addEvaluationElement(itemIndex)
       \/ \E itemIndex \in DOMAIN items : \E elementIndex \in DOMAIN items[itemIndex] :
             \/ removeEvaluationElement(itemIndex, elementIndex)
             \/ addNumber(itemIndex, elementIndex)
             \/ \E numIndex \in DOMAIN items[itemIndex][elementIndex] :
                   \/ removeNumber(itemIndex, elementIndex, numIndex)
                   \/ \E value \in 0 .. MaxValue :
                         updateNumber(itemIndex, elementIndex, numIndex, value)

(***************************************************************************)
(* C7 (Spec), amended: a structural edit of the hierarchy makes Results    *)
(* absent but clears no StudentRecord: the student collection, with every  *)
(* totalScore, itemScores and elementScores, is exactly as before.         *)
(***************************************************************************)
C7_EditKeepsStudents ==
    [][HierarchyEdit => /\ results' = Null
                        /\ students' = students
                        /\ nextStudentId' = nextStudentId]_vars

\* Results are absent after an edit and a student still holds its assignment
C7_Witness ==
    /\ results = Null
    /\ storageOps = <<>>
    /\ searches = 0
    /\ \E n \in DOMAIN students :
          /\ students[n].totalScore # Null
          /\ students[n].itemScores # <<>>
          /\ Len(students[n].itemScores) # Len(items)

(***************************************************************************)
(* C8 (Spec): when Results is present and updateStudentTotalScore is       *)
(* called with a non-null score that has no item-level combination, the    *)
(* step changes nothing: the student collection, the targeted student's    *)
(* previous assignment included, is as before and no error is set.         *)
(***************************************************************************)
C8_NoCombinationNoMutation ==
    [][\A id \in 1 .. MaxStudentId : \A score \in Scores \ {Null} :
          (/\ results # Null
           /\ Len(findItemCombinations(score[1], results[1].itemResults)) = 0
           /\ updateStudentTotalScore(id, score))
              => UNCHANGED <<students, nextStudentId, items, results, error>>]_vars

\* the search found nothing and the student keeps the assignment it had
C8_Witness ==
    /\ results # Null
    /\ searches = 1
    /\ storageOps = <<>>
    /\ error = Null
    /\ \E n \in DOMAIN students :
          /\ students[n].totalScore # Null
          /\ students[n].itemScores # <<>>

(***************************************************************************)
(* C9 (Spec): when updateStudentTotalScore is called with null, the        *)
(* targeted student ends with totalScore unset and itemScores and          *)
(* elementScores empty, and no decomposition search is run.                *)
(***************************************************************************)
C9_NullScoreClears ==
    [][\A id \in 1 .. MaxStudentId :
          updateStudentTotalScore(id, Null)
              => /\ searches' = 0
                 /\ \A n \in DOMAIN students' :
                        students'[n].id = id
                            => /\ students'[n].totalScore = Null
                               /\ students'[n].itemScores = <<>>
                               /\ students'[n].elementScores = <<>>]_vars

\* Results present, no search run by the last handler, and the student has no score
C9_Witness ==
    /\ results # Null
    /\ searches = 0
    /\ storageOps = <<"setItem sumway-students">>
    /\ nextStudentId > 1
    /\ \E n \in DOMAIN students :
          /\ students[n].totalScore = Null
          /\ students[n].itemScores = <<>>
          /\ students[n].elementScores = <<>>

(***************************************************************************)
(* Reference definitions for the selector: the population standard         *)
(* deviation order and the place of a candidate in the stable ascending    *)
(* order, independently of the sort above.                                 *)
(***************************************************************************)
\* Len(c)^2 times the sum of the squared distances of the values from their mean
SquaredDistances(c) ==
    SumSeq([i \in DOMAIN c |-> (Len(c) * c[i] - SumSeq(c)) * (Len(c) * c[i] - SumSeq(c))])

\* the population standard deviation of a is below that of b
LessSpread(a, b) ==
    SquaredDistances(a) * Len(b) * Len(b) * Len(b)
        < SquaredDistances(b) * Len(a) * Len(a) * Len(a)

\* candidate j comes before candidate i: smaller deviation, or equal and earlier
ComesBefore(cands, j, i) ==
    \/ LessSpread(cands[j], cands[i])
    \/ ~LessSpread(cands[i], cands[j]) /\ j < i

\* the 1-based place of candidate i in the stable ascending order
Place(cands, i) == 1 + Cardinality({j \in DOMAIN cands : ComesBefore(cands, j, i)})

\* max(1, ceil(0.3 * n)): the least m >= 1 with m >= 0.3 * n
PrefixSize(n) == CHOOSE m \in 1 .. (n + 1) :
                    /\ 10 * m >= 3 * n
                    /\ \A l \in 1 .. (m - 1) : 10 * l < 3 * n

\* the candidates in the first PrefixSize places
Prefix(cands) == {cands[i] : i \in {j \in DOMAIN cands :
                                        Place(cands, j) <= PrefixSize(Len(cands))}}

Offenders ==
    {p \in (1 .. MaxItems + 1) \X (1 .. MaxElements + 1) \X (1 .. MaxNumbers + 1) :
        /\ p[1] \in DOMAIN items
        /\ p[2] \in DOMAIN items[p[1]]
        /\ p[3] \in DOMAIN items[p[1]][p[2]]
        /\ items[p[1]][p[2]][p[3]] <= 0}

\* p is met before q by a walk over items, then elements, then values
Earlier(p, q) ==
    \/ p[1] < q[1]
    \/ p[1] = q[1] /\ p[2] < q[2]
    \/ p[1] = q[1] /\ p[2] = q[2] /\ p[3] < q[3]

(***************************************************************************)
(* C12 (SpecVal): validation fails exactly when some value of the          *)
(* hierarchy is <= 0, and the position it reports, which is the one the    *)
(* error message of a failed calculation names, is the 1-based (item,      *)
(* element, value) triple of the first such value in item-major, then      *)
(* element, then value order; a calculation that produced Results found    *)
(* no such value.                                                          *)
(***************************************************************************)
C12_ValidationFirstOffender ==
    /\ (validate = Null) <=> (Offenders = {})
    /\ validate # Null =>
          /\ validate[1] \in Offenders
          /\ \A q \in Offenders : q = validate[1] \/ Earlier(validate[1], q)
    /\ error # Null => error = validate
    /\ results # Null => Offenders = {}

\* a failed calculation on a hierarchy with a zero and a negative value, both
\* after a valid first value: the message names the earlier of the two
C12_Witness ==
    /\ error # Null
    /\ results = Null
    /\ error[1] # <<1, 1, 1>>
    /\ \E p, q \in Offenders :
          /\ items[p[1]][p[2]][p[3]] = 0
          /\ items[q[1]][q[2]][q[3]] < 0
          /\ error[1] \in {p, q}

(***************************************************************************)
(* C13 (Spec): calculateCombinations on a hierarchy that fails validation  *)
(* produces no Results: Results keep their previous value, the hierarchy,  *)
(* the student collection and the next student id are unchanged, nothing   *)
(* is written to localStorage, and the error message, naming the position  *)
(* validate found, is the only thing set.                                  *)
(***************************************************************************)
C13_FailedCalculationOnlyError ==
    [][(validate # Null /\ calculateCombinations)
          => /\ UNCHANGED <<items, results, students, nextStudentId>>
             /\ storageOps' = <<>>
             /\ error' = validate
             /\ error' # Null]_vars

\* a calculation has just failed while a student still holds assigned scores
C13_Witness ==
    /\ error # Null
    /\ error = validate
    /\ storageOps = <<>>
    /\ results = Null
    /\ \E n \in DOMAIN students :
          /\ students[n].totalScore # Null
          /\ students[n].itemScores # <<>>

(***************************************************************************)
(* C14 (SpecFn), as stated: selectBalancedCombination invoked with an      *)
(* empty candidate sequence fails: no call with an empty candidate         *)
(* sequence returns a value to its caller.  fnPc names the function once   *)
(* it has returned.                                                        *)
(***************************************************************************)
C14_EmptySelectionFails ==
    ~(fnPc = "selectBalancedCombination" /\ Len(sets) = 0)

(***************************************************************************)
(* C14 (SpecFn), amended: selectBalancedCombination invoked with an empty  *)
(* candidate sequence returns normally, and what it returns is the empty   *)
(* combination [], whatever the random source gives.                       *)
(***************************************************************************)
C14_EmptySelectionReturnsEmpty ==
    (fnPc = "selectBalancedCombination" /\ Len(sets) = 0) => fnOut = <<>>

\* the call on no candidates has returned [], with a random source that is not 0
C14_Witness ==
    /\ fnPc = "selectBalancedCombination"
    /\ sets = <<>>
    /\ fnRandom > 0
    /\ fnOut = <<>>

(***************************************************************************)
(* C15 (SpecFn): findItemCombinations and findElementCombinations called   *)
(* with an empty sequence of groups return exactly one combination, the    *)
(* empty one, when the target is 0, and no combination for every other     *)
(* target.                                                                 *)
(***************************************************************************)
C15_SearchNoGroups ==
    (fnPc \in {"findItemCombinations", "findElementCombinations"} /\ Len(sets) = 0)
        => fnOut = IF targetSum = 0 THEN << <<>> >> ELSE <<>>

\* the search over no groups for target 0 has returned the one empty combination
C15_Witness ==
    /\ fnPc = "findItemCombinations"
    /\ sets = <<>>
    /\ targetSum = 0
    /\ Len(fnOut) = 1
    /\ fnOut[1] = <<>>

(***************************************************************************)
(* C16 (SpecFn): the sequence calculateCartesianSum returns is strictly    *)
(* descending, hence without duplicates, for every input; for zero groups  *)
(* it is the empty sequence.                                               *)
(***************************************************************************)
C16_CartesianSumStrictlyDescending ==
    fnPc = "calculateCartesianSum"
        => /\ \A i \in 1 .. (Len(fnOut) - 1) : fnOut[i] > fnOut[i + 1]
           /\ Len(sets) = 0 => fnOut = <<>>

\* ascending groups whose pairwise sums come out as 2, 3, 3, 4: the result
\* has the duplicate removed and the order reversed
C16_Witness ==
    /\ fnPc = "calculateCartesianSum"
    /\ sets = << <<1, 2>>, <<1, 2>> >>
    /\ PairSums(sets[1], sets[2]) = <<2, 3, 3, 4>>
    /\ fnOut = <<4, 3, 2>>

(***************************************************************************)
(* Reference definitions for the shape of the hierarchy.                   *)
(***************************************************************************)
\* at least one item, every item at least one element, every element at least one value
NonEmptyContainers ==
    /\ Len(items) >= 1
    /\ \A i \in DOMAIN items :
          /\ Len(items[i]) >= 1
          /\ \A j \in DOMAIN items[i] : Len(items[i][j]) >= 1

\* a remove handler called on a container that holds one member
RemoveFromSizeOne ==
    \/ \E itemIndex \in DOMAIN items : Len(items) = 1 /\ removeItem(itemIndex)
    \/ \E itemIndex \in DOMAIN items : \E elementIndex \in DOMAIN items[itemIndex] :
          Len(items[itemIndex]) = 1 /\ removeEvaluationElement(itemIndex, elementIndex)
    \/ \E itemIndex \in DOMAIN items : \E elementIndex \in DOMAIN items[itemIndex] :
          \E numIndex \in DOMAIN items[itemIndex][elementIndex] :
             /\ Len(items[itemIndex][elementIndex]) = 1
             /\ removeNumber(itemIndex, elementIndex, numIndex)

(***************************************************************************)
(* C17 (Spec): from the default hierarchy [[[0]]], after any sequence of   *)
(* handler calls the hierarchy has at least one item, every item has at    *)
(* least one element and every element has at least one value; and a       *)
(* remove handler called on a container of size one changes neither the    *)
(* hierarchy nor Results.                                                  *)
(***************************************************************************)
C17_ContainersNeverEmpty ==
    /\ []NonEmptyContainers
    /\ [][RemoveFromSizeOne => UNCHANGED <<items, results>>]_vars

\* Results are present and the last call neither searched nor stored nor
\* cleared them: a remove handler was called on the only item, element or value
C17_Witness ==
    /\ results # Null
    /\ searches = 0
    /\ storageOps = <<>>
    /\ Len(items) = 1
    /\ \E i \in DOMAIN items : Len(items[i]) = 2

(***************************************************************************)
(* C18 (Spec): whenever Results is present, every student whose totalScore *)
(* is set agrees with the current hierarchy and Results: totalScore is a   *)
(* member of totalResult, itemScores has one entry per item and            *)
(* itemScores[i] is a member of itemResults[i], and elementScores[i] has   *)
(* one entry per element of item i and elementScores[i][j] is a member of  *)
(* items[i][j].                                                            *)
(***************************************************************************)
C18_ScoredStudentsMatchResults ==
    results # Null =>
        \A n \in DOMAIN students :
            students[n].totalScore # Null =>
                /\ students[n].totalScore[1] \in Elems(results[1].totalResult)
                /\ DOMAIN students[n].itemScores = DOMAIN items
                /\ DOMAIN results[1].itemResults = DOMAIN items
                /\ DOMAIN students[n].elementScores = DOMAIN items
                /\ \A i \in DOMAIN items :
                      /\ students[n].itemScores[i] \in Elems(results[1].itemResults[i])
                      /\ DOMAIN students[n].elementScores[i] = DOMAIN items[i]
                      /\ \A j \in DOMAIN items[i] :
                            students[n].elementScores[i][j] \in Elems(items[i][j])

\* Results over two items, one element offering two values, and a student
\* who was assigned the second of them
C18_Witness ==
    /\ results # Null
    /\ Len(items) = 2
    /\ \E n \in DOMAIN students :
          /\ students[n].totalScore # Null
          /\ Len(students[n].elementScores) = 2
          /\ \E i \in DOMAIN items : \E j \in DOMAIN items[i] :
                /\ Len(items[i][j]) = 2
                /\ items[i][j][1] # items[i][j][2]
                /\ Len(students[n].elementScores[i]) >= j
                /\ students[n].elementScores[i][j] = items[i][j][2]

(***************************************************************************)
(* C19 (Spec): a calculateCombinations whose validation passes removes     *)
(* every student record, not only the assigned scores: after it the        *)
(* student collection is empty and the next student id is 1, whatever      *)
(* students, names and total scores there were before.                     *)
(***************************************************************************)
C19_CalculationRemovesStudents ==
    [][(validate = Null /\ calculateCombinations)
          => /\ students' = <<>>
             /\ nextStudentId' = 1
             /\ results' # Null]_vars

\* a calculation has just succeeded on an edited hierarchy: the hierarchy and
\* the emptied students were stored, and no student is left
C19_Witness ==
    /\ results # Null
    /\ storageOps = <<"setItem sumway-items", "setItem sumway-students">>
    /\ items # DefaultItems
    /\ students = <<>>
    /\ nextStudentId = 1

(***************************************************************************)
(* C20 (SpecRoster): when Results is absent, updateStudentTotalScore       *)
(* called with any score, null or not, runs no search and leaves the       *)
(* targeted student with totalScore unset and itemScores and elementScores *)
(* empty; every other student is unchanged.                                *)
(***************************************************************************)
C20_NoResultsScoreClears ==
    [][\A id \in 1 .. MaxRosterId : \A score \in Scores :
          (results = Null /\ updateStudentTotalScore(id, score))
              => /\ searches' = 0
                 /\ DOMAIN students' = DOMAIN students
                 /\ \A n \in DOMAIN students :
                        IF students[n].id = id
                        THEN /\ students'[n].id = id
                             /\ students'[n].totalScore = Null
                             /\ students'[n].itemScores = <<>>
                             /\ students'[n].elementScores = <<>>
                        ELSE students'[n] = students[n]]_vars

\* Results are absent, the students were just stored, the first student has
\* no score and the second still holds the assignment made before the edit
C20_Witness ==
    /\ results = Null
    /\ searches = 0
    /\ storageOps = <<"setItem sumway-students">>
    /\ Len(students) = 2
    /\ students[1].totalScore = Null
    /\ students[1].itemScores = <<>>
    /\ students[2].totalScore # Null
    /\ students[2].itemScores # <<>>
    /\ students[2].elementScores # <<>>

(***************************************************************************)
(* C21 (SpecRoster): from the empty student list with next id 1, in every  *)
(* state reached by addStudent, removeStudent, calculateCombinations,      *)
(* resetAll and the other handlers, the ids of the students are pairwise   *)
(* distinct and every student's id is strictly less than the next student  *)
(* id.                                                                     *)
(***************************************************************************)
C21_StudentIdsDistinctBelowNext ==
    /\ \A m, n \in DOMAIN students : m # n => students[m].id # students[n].id
    /\ \A n \in DOMAIN students : students[n].id < nextStudentId

\* after a calculation emptied the list and restarted the ids, two students
\* were added, and then the first of them was removed: the one left has id 2
C21_Witness ==
    /\ results # Null
    /\ Len(students) = 1
    /\ students[1].id = 2
    /\ nextStudentId = 3
    /\ storageOps = <<"setItem sumway-students">>

====
